---- MODULE Spec2Model ----
(***************************************************************************)
(* The Bookstore component of FPB-Store (src/Bookstore.tsx): its React     *)
(* state, its event handlers and the steps of the asynchronous search.     *)
(*                                                                         *)
(* Every handler is one atomic action: React batches the state updates a   *)
(* handler makes and renders once after it.  A search (handleSearch) is    *)
(* the only suspended computation: it is started by one action and then    *)
(* advanced by the recommendation stream, one payload, one completion or   *)
(* one failure at a time.  Each call of handleSearch owns its local        *)
(* newBooks array, kept here per search.                                   *)
(*                                                                         *)
(* The handlers are the operations the component hands to its screens; a   *)
(* handler is taken to be callable in every state, whatever screen is up.  *)
(* The search steps write displayedBooks, inventory and isLoading only,    *)
(* the cart and notification handlers never write those, so the two        *)
(* groups are explored apart (SearchSpec, StoreSpec); LogSpec starts the   *)
(* second group from a notification log near its capacity.                 *)
(*                                                                         *)
(* Not modelled: timestamps (new Date()), the pseudo-random price, rating  *)
(* and bestseller flag of a generated book, the prompt text, selectedBook. *)
(***************************************************************************)
EXTENDS Integers, Sequences, FiniteSets, TLC

VARIABLES
    displayedBooks,   \* Book[]            (useState, line 27)
    inventory,        \* Book[]            (useState, line 28)
    isLoading,        \* boolean           (useState, line 29)
    currentView,      \* 'store' | ...     (useState, line 31)
    isAdmin,          \* boolean           (useState, line 32)
    salesData,        \* {bookId}[]        (useState, line 33)
    cart,             \* CartItem[]        (useState, line 34)
    notifications,    \* Notification[]    (useState, line 35)
    searches,         \* the calls of handleSearch: status, local newBooks, payloads received
    uuidCount         \* how many ids uuidv4() has handed out

vars == <<displayedBooks, inventory, isLoading, currentView, isAdmin,
          salesData, cart, notifications, searches, uuidCount>>

searchVars == <<displayedBooks, inventory, isLoading, searches>>
viewVars   == <<currentView, isAdmin>>
cartVars   == <<cart, salesData>>

----------------------------------------------------------------------------
(* Bounds of the exploration *)

MaxSearches == 2      \* calls of handleSearch
MaxPayloads == 4      \* payloads the streams deliver in all
MaxQuantity == 2      \* quantity a cart line is raised to
MaxPushes   == 4      \* uuids the cart handlers draw for notifications
MaxLogPushes == 2     \* the same, when started from a long notification log

(* Program constants *)

SliceEnd == 19        \* prev.slice(0, 19)
NumPrebuilt == 2      \* the length of prebuiltBooks (data/prebuiltBooks)

----------------------------------------------------------------------------
(* Values *)

Titles == {"T1", "T2"}
Malformed == "malformed"

Min(a, b) == IF a < b THEN a ELSE b

Range(s) == {s[i] : i \in DOMAIN s}

\* uuidv4(): the n-th id drawn (n >= 1) is fresh
uuidv4(n) == n

\* an id no book and no notification has
AbsentId == uuidv4(0)

\* A Book, reduced to the fields the handlers read: id and title
Book(id, title) == [id |-> id, title |-> title]

PrebuiltTitle(i) == IF i % 2 = 1 THEN "T1" ELSE "T2"

\* The fallback catalog: fixed, non-empty, its ids distinct from every uuid
prebuiltBooks == [i \in 1..NumPrebuilt |-> Book(0 - i, PrebuiltTitle(i))]

AddedMessage(title) == <<"added to cart", title>>
SaleMessage(title, quantity) == <<"New Sale", title, quantity>>

----------------------------------------------------------------------------
(* The state updaters, as the functions of the previous state they are *)

\* addNotification keeping one entry too many: prev.slice(0, 20)
addNotification_SliceTwenty(prev, id, message) ==
    <<[id |-> id, message |-> message, read |-> FALSE]>>
        \o SubSeq(prev, 1, Min(Len(prev), SliceEnd + 1))

\* addNotification: setNotifications(prev => [newNotification, ...prev.slice(0, 19)])
addNotification(prev, id, message) ==
    <<[id |-> id, message |-> message, read |-> FALSE]>>
        \o SubSeq(prev, 1, Min(Len(prev), SliceEnd))

HasItem(prevCart, bookId) == \E i \in DOMAIN prevCart : prevCart[i].id = bookId

QuantityOf(prevCart, bookId) ==
    IF HasItem(prevCart, bookId)
    THEN prevCart[CHOOSE i \in DOMAIN prevCart :
                    /\ prevCart[i].id = bookId
                    /\ \A j \in 1..(i - 1) : prevCart[j].id # bookId].quantity
    ELSE 0

\* an increase that inserts a line when the id has none
IncrementItem_Upsert(prevCart, bookId) ==
    IF \E i \in DOMAIN prevCart : prevCart[i].id = bookId
    THEN [i \in DOMAIN prevCart |->
            IF prevCart[i].id = bookId
            THEN [prevCart[i] EXCEPT !.quantity = @ + 1]
            ELSE prevCart[i]]
    ELSE Append(prevCart, [id |-> bookId, title |-> "T1", quantity |-> 1])

IncrementItem(prevCart, bookId) ==
    [i \in DOMAIN prevCart |->
        IF prevCart[i].id = bookId
        THEN [prevCart[i] EXCEPT !.quantity = @ + 1]
        ELSE prevCart[i]]

DecrementItem(prevCart, bookId) ==
    [i \in DOMAIN prevCart |->
        IF prevCart[i].id = bookId
        THEN [prevCart[i] EXCEPT !.quantity = @ - 1]
        ELSE prevCart[i]]

FilterOutItem(prevCart, bookId) ==
    SelectSeq(prevCart, LAMBDA item : item.id # bookId)

\* handleAddToCart without the existingItem branch
AddToCartUpdate_AlwaysAppend(prevCart, bookToAdd) ==
    Append(prevCart, [id |-> bookToAdd.id, title |-> bookToAdd.title,
                      quantity |-> 1])

\* the updater of handleAddToCart
AddToCartUpdate(prevCart, bookToAdd) ==
    IF HasItem(prevCart, bookToAdd.id)
    THEN IncrementItem(prevCart, bookToAdd.id)
    ELSE Append(prevCart, [id |-> bookToAdd.id, title |-> bookToAdd.title,
                           quantity |-> 1])

\* handleDecreaseQuantity without the quantity > 1 test
DecreaseQuantityUpdate_AlwaysDecrement(prevCart, bookId) ==
    DecrementItem(prevCart, bookId)

\* the updater of handleDecreaseQuantity
DecreaseQuantityUpdate(prevCart, bookId) ==
    IF HasItem(prevCart, bookId) /\ QuantityOf(prevCart, bookId) > 1
    THEN DecrementItem(prevCart, bookId)
    ELSE FilterOutItem(prevCart, bookId)

\* const totalCartItems = cart.reduce((total, item) => total + item.quantity, 0)
RECURSIVE Reduce(_, _, _)
Reduce(items, i, total) ==
    IF i > Len(items) THEN total
    ELSE Reduce(items, i + 1, total + items[i].quantity)

totalCartItems == Reduce(cart, 1, 0)

\* one sale record per line instead of one per unit
UnitSales_OnePerLine(item) == <<[bookId |-> item.id]>>

\* for (let i = 0; i < item.quantity; i++) newSales.push({ bookId: item.id, ... })
UnitSales(item) == [i \in 1..item.quantity |-> [bookId |-> item.id]]

\* cart.forEach(item => { ... newSales.push ... })
RECURSIVE NewSales(_, _)
NewSales(items, i) ==
    IF i > Len(items) THEN <<>>
    ELSE UnitSales(items[i]) \o NewSales(items, i + 1)

\* cart.forEach(item => { ... addNotification(`New Sale: ...`) }): the i-th line
\* draws the i-th fresh uuid
RECURSIVE SaleNotifications(_, _, _, _)
SaleNotifications(prev, items, i, drawn) ==
    IF i > Len(items) THEN prev
    ELSE SaleNotifications(
            addNotification(prev, uuidv4(drawn + 1),
                            SaleMessage(items[i].title, items[i].quantity)),
            items, i + 1, drawn + 1)

\* a merge that puts the new books first
MergeInventory_Prepend(prev, newBooks) ==
    SelectSeq(newBooks, LAMBDA nb : ~ \E i \in DOMAIN prev : prev[i].id = nb.id)
        \o prev

\* setInventory(prev => [...prev, ...newBooks.filter(nb => !prev.some(ib => ib.id === nb.id))])
MergeInventory(prev, newBooks) ==
    prev \o SelectSeq(newBooks,
                      LAMBDA nb : ~ \E i \in DOMAIN prev : prev[i].id = nb.id)

----------------------------------------------------------------------------
(* Initial state: the useState initial values *)

IdleSearch == [status |-> "idle", newBooks |-> <<>>, stream |-> <<>>]

Init ==
    /\ displayedBooks = prebuiltBooks
    /\ inventory = prebuiltBooks
    /\ isLoading = FALSE
    /\ currentView = "store"
    /\ isAdmin = FALSE
    /\ salesData = <<>>
    /\ cart = <<>>
    /\ notifications = <<>>
    /\ searches = [s \in 1..MaxSearches |-> IdleSearch]
    /\ uuidCount = 0

----------------------------------------------------------------------------
(* The search: handleSearch and the steps of its stream *)

SearchIds == DOMAIN searches

\* payloads delivered so far, over all streams
RECURSIVE PayloadCount(_)
PayloadCount(s) ==
    IF s = 0 THEN 0 ELSE Len(searches[s].stream) + PayloadCount(s - 1)

MorePayloads == PayloadCount(MaxSearches) < MaxPayloads

Started == {s \in SearchIds : searches[s].status # "idle"}
Pending == {s \in SearchIds : searches[s].status = "pending"}

\* handleSearch(prompt), up to the await: the s-th call
handleSearch(s) ==
    /\ searches[s].status = "idle"
    /\ \A t \in 1..(s - 1) : searches[t].status # "idle"
    /\ isLoading' = TRUE
    /\ displayedBooks' = <<>>
    /\ searches' = [searches EXCEPT ![s] =
                        [status |-> "pending", newBooks |-> <<>>, stream |-> <<>>]]
    /\ UNCHANGED <<inventory, uuidCount, notifications>>
    /\ UNCHANGED cartVars
    /\ UNCHANGED viewVars

\* an onItem that shows the newest book first
onItem_NewestFirst(s, bookData) ==
    /\ searches[s].status = "pending"
    /\ MorePayloads
    /\ LET newId == uuidv4(uuidCount + 1)
           newBook == Book(newId, bookData)
           newBooks == Append(searches[s].newBooks, newBook)
       IN  /\ searches' = [searches EXCEPT
                              ![s].newBooks = newBooks,
                              ![s].stream = Append(@, bookData)]
           /\ displayedBooks' = <<newBook>> \o searches[s].newBooks
    /\ uuidCount' = uuidCount + 1
    /\ UNCHANGED <<inventory, isLoading, notifications>>
    /\ UNCHANGED cartVars
    /\ UNCHANGED viewVars

\* the onItem callback of search s, called with a valid payload
onItem(s, bookData) ==
    /\ searches[s].status = "pending"
    /\ MorePayloads
    /\ LET newId == uuidv4(uuidCount + 1)
           newBook == Book(newId, bookData)
           newBooks == Append(searches[s].newBooks, newBook)
       IN  /\ searches' = [searches EXCEPT
                              ![s].newBooks = newBooks,
                              ![s].stream = Append(@, bookData)]
           /\ displayedBooks' = newBooks
    /\ uuidCount' = uuidCount + 1
    /\ UNCHANGED <<inventory, isLoading, notifications>>
    /\ UNCHANGED cartVars
    /\ UNCHANGED viewVars

\* a malformed payload handed to the item callback like a valid one
dropMalformed_AsItem(s) ==
    /\ searches[s].status = "pending"
    /\ MorePayloads
    /\ LET newBook == Book(uuidv4(uuidCount + 1), Malformed)
           newBooks == Append(searches[s].newBooks, newBook)
       IN  /\ searches' = [searches EXCEPT
                              ![s].newBooks = newBooks,
                              ![s].stream = Append(@, Malformed)]
           /\ displayedBooks' = newBooks
    /\ uuidCount' = uuidCount + 1
    /\ UNCHANGED <<inventory, isLoading, notifications>>
    /\ UNCHANGED cartVars
    /\ UNCHANGED viewVars

\* a malformed payload: streamBookRecommendations drops it and calls nothing
dropMalformed(s) ==
    /\ searches[s].status = "pending"
    /\ MorePayloads
    /\ searches' = [searches EXCEPT ![s].stream = Append(@, Malformed)]
    /\ UNCHANGED <<displayedBooks, inventory, isLoading, uuidCount, notifications>>
    /\ UNCHANGED cartVars
    /\ UNCHANGED viewVars

\* the await returns: setInventory(merge), finally setIsLoading(false)
streamCompleted(s) ==
    /\ searches[s].status = "pending"
    /\ inventory' = MergeInventory(inventory, searches[s].newBooks)
    /\ isLoading' = FALSE
    /\ searches' = [searches EXCEPT ![s].status = "done"]
    /\ UNCHANGED <<displayedBooks, uuidCount, notifications>>
    /\ UNCHANGED cartVars
    /\ UNCHANGED viewVars

\* a catch that still merges the partial items into the inventory
streamFailed_MergePartial(s) ==
    /\ searches[s].status = "pending"
    /\ displayedBooks' = prebuiltBooks
    /\ inventory' = MergeInventory(inventory, searches[s].newBooks)
    /\ isLoading' = FALSE
    /\ searches' = [searches EXCEPT ![s].status = "failed"]
    /\ UNCHANGED <<uuidCount, notifications>>
    /\ UNCHANGED cartVars
    /\ UNCHANGED viewVars

\* a catch that leaves the partial items on display
streamFailed_KeepPartial(s) ==
    /\ searches[s].status = "pending"
    /\ isLoading' = FALSE
    /\ searches' = [searches EXCEPT ![s].status = "failed"]
    /\ UNCHANGED <<displayedBooks, inventory, uuidCount, notifications>>
    /\ UNCHANGED cartVars
    /\ UNCHANGED viewVars

\* the await throws: catch setDisplayedBooks(prebuiltBooks), finally setIsLoading(false)
streamFailed(s) ==
    /\ searches[s].status = "pending"
    /\ displayedBooks' = prebuiltBooks
    /\ isLoading' = FALSE
    /\ searches' = [searches EXCEPT ![s].status = "failed"]
    /\ UNCHANGED <<inventory, uuidCount, notifications>>
    /\ UNCHANGED cartVars
    /\ UNCHANGED viewVars

----------------------------------------------------------------------------
(* The cart and the checkout *)

\* the books a BookCard or the BookModal can hand to onAddToCart
OfferedBooks == Range(displayedBooks) \cup Range(inventory)

\* the ids the cart page can pass, and one id no line has
BookIdInputs ==
    {b.id : b \in OfferedBooks} \cup {cart[i].id : i \in DOMAIN cart} \cup {AbsentId}

\* an add that announces the book also when its line exists already
handleAddToCart_NotifyAlways(bookToAdd, uuidLimit) ==
    /\ HasItem(cart, bookToAdd.id) => QuantityOf(cart, bookToAdd.id) < MaxQuantity
    /\ uuidCount < uuidLimit
    /\ notifications' = addNotification(notifications, uuidv4(uuidCount + 1),
                                        AddedMessage(bookToAdd.title))
    /\ uuidCount' = uuidCount + 1
    /\ cart' = AddToCartUpdate(cart, bookToAdd)
    /\ UNCHANGED salesData
    /\ UNCHANGED searchVars
    /\ UNCHANGED viewVars

handleAddToCart(bookToAdd, uuidLimit) ==
    /\ IF HasItem(cart, bookToAdd.id)
       THEN /\ QuantityOf(cart, bookToAdd.id) < MaxQuantity
            /\ UNCHANGED <<notifications, uuidCount>>
       ELSE /\ uuidCount < uuidLimit
            /\ notifications' = addNotification(notifications, uuidv4(uuidCount + 1),
                                                AddedMessage(bookToAdd.title))
            /\ uuidCount' = uuidCount + 1
    /\ cart' = AddToCartUpdate(cart, bookToAdd)
    /\ UNCHANGED salesData
    /\ UNCHANGED searchVars
    /\ UNCHANGED viewVars

\* a removal that reports itself to the admin log
handleRemoveFromCart_Notify(bookId) ==
    /\ uuidCount < MaxPushes
    /\ cart' = FilterOutItem(cart, bookId)
    /\ uuidCount' = uuidCount + 1
    /\ notifications' = addNotification(notifications, uuidv4(uuidCount'),
                                        <<"removed from cart", bookId>>)
    /\ UNCHANGED salesData
    /\ UNCHANGED searchVars
    /\ UNCHANGED viewVars

handleRemoveFromCart(bookId) ==
    /\ cart' = FilterOutItem(cart, bookId)
    /\ UNCHANGED <<salesData, notifications, uuidCount>>
    /\ UNCHANGED searchVars
    /\ UNCHANGED viewVars

handleIncreaseQuantity(bookId) ==
    /\ QuantityOf(cart, bookId) < MaxQuantity
    /\ cart' = IncrementItem(cart, bookId)
    /\ UNCHANGED <<salesData, notifications, uuidCount>>
    /\ UNCHANGED searchVars
    /\ UNCHANGED viewVars

handleDecreaseQuantity(bookId) ==
    /\ cart' = DecreaseQuantityUpdate(cart, bookId)
    /\ UNCHANGED <<salesData, notifications, uuidCount>>
    /\ UNCHANGED searchVars
    /\ UNCHANGED viewVars

\* a checkout that records the sales and leaves the cart as it is
handleConfirmCartPurchase_KeepCart(uuidLimit) ==
    /\ uuidCount + Len(cart) <= uuidLimit
    /\ notifications' = SaleNotifications(notifications, cart, 1, uuidCount)
    /\ uuidCount' = uuidCount + Len(cart)
    /\ salesData' = salesData \o NewSales(cart, 1)
    /\ currentView' = "store"
    /\ UNCHANGED <<cart, isAdmin>>
    /\ UNCHANGED searchVars

handleConfirmCartPurchase(uuidLimit) ==
    /\ uuidCount + Len(cart) <= uuidLimit
    /\ notifications' = SaleNotifications(notifications, cart, 1, uuidCount)
    /\ uuidCount' = uuidCount + Len(cart)
    /\ salesData' = salesData \o NewSales(cart, 1)
    /\ cart' = <<>>
    /\ currentView' = "store"
    /\ UNCHANGED isAdmin
    /\ UNCHANGED searchVars

----------------------------------------------------------------------------
(* The notification panel *)

\* the ids the panel can pass, and one id no notification has
AllNotificationIds ==
    {notifications[i].id : i \in DOMAIN notifications} \cup {AbsentId}

\* of a long log: the id of the oldest entry only, and the absent one
OldestNotificationIds ==
    {notifications[i].id : i \in {Len(notifications)} \cap DOMAIN notifications}
        \cup {AbsentId}

\* a dismiss by prev.splice(prev.findIndex(...), 1): index -1 removes the last entry
DismissUpdate_Splice(prev, id) ==
    IF \E i \in DOMAIN prev : prev[i].id = id
    THEN SelectSeq(prev, LAMBDA n : n.id # id)
    ELSE SubSeq(prev, 1, Len(prev) - 1)

DismissUpdate(prev, id) == SelectSeq(prev, LAMBDA n : n.id # id)

\* a markRead that flips the flag
MarkAsReadUpdate_Toggle(prev, id) ==
    [i \in DOMAIN prev |-> IF prev[i].id = id THEN [prev[i] EXCEPT !.read = ~ @]
                           ELSE prev[i]]

MarkAsReadUpdate(prev, id) ==
    [i \in DOMAIN prev |-> IF prev[i].id = id THEN [prev[i] EXCEPT !.read = TRUE]
                           ELSE prev[i]]

MarkAllAsReadUpdate(prev) ==
    [i \in DOMAIN prev |-> [prev[i] EXCEPT !.read = TRUE]]

handleDismissNotification(id) ==
    /\ notifications' = DismissUpdate(notifications, id)
    /\ UNCHANGED uuidCount
    /\ UNCHANGED cartVars
    /\ UNCHANGED searchVars
    /\ UNCHANGED viewVars

handleMarkAsRead(id) ==
    /\ notifications' = MarkAsReadUpdate(notifications, id)
    /\ UNCHANGED uuidCount
    /\ UNCHANGED cartVars
    /\ UNCHANGED searchVars
    /\ UNCHANGED viewVars

handleMarkAllAsRead ==
    /\ notifications' = MarkAllAsReadUpdate(notifications)
    /\ UNCHANGED uuidCount
    /\ UNCHANGED cartVars
    /\ UNCHANGED searchVars
    /\ UNCHANGED viewVars

handleClearAllNotifications ==
    /\ notifications' = <<>>
    /\ UNCHANGED uuidCount
    /\ UNCHANGED cartVars
    /\ UNCHANGED searchVars
    /\ UNCHANGED viewVars

----------------------------------------------------------------------------
(* The screens *)

\* setCurrentView(view) of a button the screen `from` renders
setCurrentView(from, view) ==
    /\ currentView = from
    /\ currentView' = view
    /\ UNCHANGED <<isAdmin, notifications, uuidCount>>
    /\ UNCHANGED cartVars
    /\ UNCHANGED searchVars

handleProceedToCheckout == setCurrentView("cart", "checkout")

handleBackToStore == setCurrentView("cart", "store")

handleLoginSuccess ==
    /\ currentView = "login"
    /\ isAdmin' = TRUE
    /\ currentView' = "admin"
    /\ UNCHANGED <<notifications, uuidCount>>
    /\ UNCHANGED cartVars
    /\ UNCHANGED searchVars

\* a logout that changes the view and keeps the admin flag
onLogout_KeepAdmin ==
    /\ currentView = "admin"
    /\ currentView' = "store"
    /\ UNCHANGED <<isAdmin, notifications, uuidCount>>
    /\ UNCHANGED cartVars
    /\ UNCHANGED searchVars

onLogout ==
    /\ currentView = "admin"
    /\ isAdmin' = FALSE
    /\ currentView' = "store"
    /\ UNCHANGED <<notifications, uuidCount>>
    /\ UNCHANGED cartVars
    /\ UNCHANGED searchVars

----------------------------------------------------------------------------
(* Specifications *)

SearchNext ==
    \/ \E s \in SearchIds : handleSearch(s)
    \/ \E s \in SearchIds : \E bookData \in Titles : onItem(s, bookData)
    \/ \E s \in SearchIds : dropMalformed(s)
    \/ \E s \in SearchIds : streamCompleted(s)
    \/ \E s \in SearchIds : streamFailed(s)

CartNext(uuidLimit) ==
    \/ \E bookToAdd \in OfferedBooks : handleAddToCart(bookToAdd, uuidLimit)
    \/ \E bookId \in BookIdInputs : handleRemoveFromCart(bookId)
    \/ \E bookId \in BookIdInputs : handleIncreaseQuantity(bookId)
    \/ \E bookId \in BookIdInputs : handleDecreaseQuantity(bookId)
    \/ handleConfirmCartPurchase(uuidLimit)

NotificationNext(idInputs) ==
    \/ \E id \in idInputs : handleDismissNotification(id)
    \/ \E id \in idInputs : handleMarkAsRead(id)
    \/ handleMarkAllAsRead
    \/ handleClearAllNotifications

ViewNext ==
    \/ setCurrentView("store", "cart")
    \/ setCurrentView("store", "login")
    \/ setCurrentView("login", "store")
    \/ setCurrentView("checkout", "cart")
    \/ handleProceedToCheckout
    \/ handleBackToStore
    \/ handleLoginSuccess
    \/ onLogout

Next ==
    SearchNext \/ CartNext(MaxPushes) \/ NotificationNext(AllNotificationIds) \/ ViewNext

\* the whole component
Spec == Init /\ [][Next]_vars

\* the searches alone: they write displayedBooks, inventory and isLoading only
SearchSpec == Init /\ [][SearchNext]_vars

\* the cart, the checkout and the notification panel, from the initial state
StoreNext ==
    \/ \E bookToAdd \in OfferedBooks : handleAddToCart(bookToAdd, MaxPushes)
    \/ \E bookId \in BookIdInputs : handleRemoveFromCart(bookId)
    \/ \E bookId \in BookIdInputs : handleIncreaseQuantity(bookId)
    \/ \E bookId \in BookIdInputs : handleDecreaseQuantity(bookId)
    \/ handleConfirmCartPurchase(MaxPushes)
    \/ \E id \in AllNotificationIds : handleDismissNotification(id)
    \/ \E id \in AllNotificationIds : handleMarkAsRead(id)
    \/ handleMarkAllAsRead
    \/ handleClearAllNotifications

StoreSpec == Init /\ [][StoreNext]_vars

\* a handler passed to the page that render returns for a view is callable
\* while that view is the current one
Rendered(view, handler) == currentView = view /\ handler

\* The pages as render offers them: the store view adds to the cart, CartPage
\* edits it, CheckoutPage confirms, LoginPage and AdminDashboard log in and
\* out.  The search steps leave currentView and isAdmin alone and are explored
\* in SearchSpec.
RenderNext ==
    \/ \E bookToAdd \in OfferedBooks :
            Rendered("store", handleAddToCart(bookToAdd, MaxPushes))
    \/ \E bookId \in BookIdInputs : Rendered("cart", handleRemoveFromCart(bookId))
    \/ \E bookId \in BookIdInputs : Rendered("cart", handleIncreaseQuantity(bookId))
    \/ \E bookId \in BookIdInputs : Rendered("cart", handleDecreaseQuantity(bookId))
    \/ Rendered("checkout", handleConfirmCartPurchase(MaxPushes))
    \/ setCurrentView("store", "cart")
    \/ setCurrentView("store", "login")
    \/ setCurrentView("login", "store")
    \/ setCurrentView("checkout", "cart")
    \/ handleProceedToCheckout
    \/ handleBackToStore
    \/ handleLoginSuccess
    \/ onLogout

RenderSpec == Init /\ [][RenderNext]_vars

\* The same handlers, started from a long notification log.  The states of
\* LogInit are reached from Init by adding the second catalog book, adding the
\* first, then removing and adding the first again SliceEnd times (SliceEnd + 2
\* notifications pushed, the first of them evicted), then dismissing the oldest
\* entries down to n and marking the entries from index readFrom on as read.
LogUuids == SliceEnd + 2

LongLog(n, readFrom) ==
    [i \in 1..n |-> [id |-> uuidv4(LogUuids + 1 - i),
                     message |-> AddedMessage(prebuiltBooks[1].title),
                     read |-> (i >= readFrom)]]

LogInit ==
    /\ displayedBooks = prebuiltBooks
    /\ inventory = prebuiltBooks
    /\ isLoading = FALSE
    /\ currentView = "store"
    /\ isAdmin = FALSE
    /\ salesData = <<>>
    /\ cart = <<[id |-> prebuiltBooks[2].id, title |-> prebuiltBooks[2].title,
                 quantity |-> 1],
                [id |-> prebuiltBooks[1].id, title |-> prebuiltBooks[1].title,
                 quantity |-> 1]>>
    /\ \E n \in 0..(SliceEnd + 1) : \E readFrom \in {1, n + 1} :
            notifications = LongLog(n, readFrom)
    /\ searches = [s \in 1..MaxSearches |-> IdleSearch]
    /\ uuidCount = LogUuids

LogLimit == LogUuids + MaxLogPushes

LogNext ==
    \/ \E bookToAdd \in OfferedBooks : handleAddToCart(bookToAdd, LogLimit)
    \/ \E bookId \in BookIdInputs : handleRemoveFromCart(bookId)
    \/ \E bookId \in BookIdInputs : handleIncreaseQuantity(bookId)
    \/ \E bookId \in BookIdInputs : handleDecreaseQuantity(bookId)
    \/ handleConfirmCartPurchase(LogLimit)
    \/ \E id \in OldestNotificationIds : handleDismissNotification(id)
    \/ \E id \in OldestNotificationIds : handleMarkAsRead(id)
    \/ handleMarkAllAsRead
    \/ handleClearAllNotifications

LogSpec == LogInit /\ [][LogNext]_vars

----------------------------------------------------------------------------
(* Properties *)

IsPrefix(s, t) == Len(s) <= Len(t) /\ SubSeq(t, 1, Len(s)) = s

RECURSIVE SumOver(_, _)
SumOver(f, S) ==
    IF S = {} THEN 0
    ELSE LET x == CHOOSE y \in S : TRUE IN f[x] + SumOver(f, S \ {x})

\* how many records of a sequence of sales carry the book id
UnitsOf(sales, bookId) == Cardinality({i \in DOMAIN sales : sales[i].bookId = bookId})

TitlesOf(books) == [i \in DOMAIN books |-> books[i].title]

ValidOnly(stream) == SelectSeq(stream, LAMBDA p : p \in Titles)

\* C1: after any sequence of add, increase, decrease and remove (and checkout),
\* every cart line has quantity >= 1 and totalCartItems is the sum of the
\* quantities of the cart lines.
C1_QuantitiesPositive ==
    /\ \A i \in DOMAIN cart : cart[i].quantity >= 1
    /\ totalCartItems = SumOver([i \in DOMAIN cart |-> cart[i].quantity], DOMAIN cart)

\* two lines, one raised to two units and one at a single unit
C1_Witness ==
    /\ Len(cart) = 2
    /\ cart[1].quantity = 1
    /\ cart[2].quantity = 2
    /\ totalCartItems = 3

\* C2: the cart holds at most one line per book id.
C2_OneLinePerBook ==
    \A i, j \in DOMAIN cart : cart[i].id = cart[j].id => i = j

\* a book added twice is one line of two units, beside another book's line
C2_Witness ==
    /\ Len(cart) = 2
    /\ cart[1].quantity = 2
    /\ cart[1].id # cart[2].id
    /\ Len(notifications) = 2

\* C3: a second search started while the first is pending: once the second has
\* completed, displayedBooks is exactly the second search's items, in arrival
\* order.  Stated for the states in which the first search is still pending, so
\* that it was pending when the second started.
C3_SecondSearchOnly ==
    ( /\ Started = {1, 2}
      /\ searches[1].status = "pending"
      /\ searches[2].status = "done" )
        => displayedBooks = searches[2].newBooks

\* C4: once a later search has been started, an item callback of a superseded
\* search does not change displayedBooks.
C4_SupersededInert ==
    [][ \A s \in SearchIds :
            ( /\ \E t \in SearchIds : t > s /\ searches[t].status # "idle"
              /\ searches'[s].newBooks # searches[s].newBooks )
                => displayedBooks' = displayedBooks ]_vars

\* C5: when the stream of a search fails and no other search is in flight,
\* displayedBooks becomes the fallback catalog, which is not empty and is not
\* the partial items.
C5_FailureShowsFallback ==
    [][ \A s \in SearchIds :
            ( /\ Pending = {s}
              /\ searches'[s].status = "failed" )
                => /\ displayedBooks' = prebuiltBooks
                   /\ displayedBooks' # <<>>
                   /\ displayedBooks' # searches[s].newBooks ]_vars

\* a lone search failed after two partial items
C5_Witness ==
    /\ Started = {1}
    /\ searches[1].status = "failed"
    /\ Len(searches[1].newBooks) = 2
    /\ displayedBooks = prebuiltBooks

\* the first search, alone: what is shown is what the stream delivered
C6_FirstSearchShowsStream ==
    (Started = {1} /\ searches[1].status = "pending")
        => /\ displayedBooks = searches[1].newBooks
           /\ TitlesOf(displayedBooks) = ValidOnly(searches[1].stream)

\* a search that starts alone shows nothing; a step of a lone search whose
\* items are on display keeps them on display and adds at most one at the end
C6_StepGrows ==
    \A s \in SearchIds :
        /\ (Pending = {} /\ searches[s].status = "idle" /\ searches'[s].status = "pending")
              => displayedBooks' = <<>> /\ searches'[s].newBooks = <<>>
        /\ (Pending = {s} /\ Pending' = {s} /\ displayedBooks = searches[s].newBooks)
              => /\ displayedBooks' = searches'[s].newBooks
                 /\ IsPrefix(displayedBooks, displayedBooks')
                 /\ Len(displayedBooks') <= Len(displayedBooks) + 1
                 /\ TitlesOf(searches'[s].newBooks) = ValidOnly(searches'[s].stream)

\* C6: during a search with no other search in flight, displayedBooks starts
\* empty and after the k-th item callback is the first k valid items of the
\* stream in arrival order; each value is a prefix of the next.
C6_IncrementalDisplay ==
    [] C6_FirstSearchShowsStream /\ [][C6_StepGrows]_vars

\* a second search, started after the first ended, shows its two items in order
C6_Witness ==
    /\ Started = {1, 2}
    /\ searches[1].status = "done"
    /\ searches[2].status = "pending"
    /\ Len(searches[1].newBooks) = 0
    /\ Len(searches[2].stream) = 2
    /\ TitlesOf(displayedBooks) = <<"T2", "T1">>
    /\ displayedBooks = searches[2].newBooks

\* no two entries of inventory share an id
C7_UniqueIds ==
    \A i, j \in DOMAIN inventory : inventory[i].id = inventory[j].id => i = j

\* a step keeps inventory as a prefix and adds only ids it did not hold
C7_StepAppends ==
    /\ IsPrefix(inventory, inventory')
    /\ \A k \in (DOMAIN inventory') \ (DOMAIN inventory) :
            \A i \in DOMAIN inventory : inventory[i].id # inventory'[k].id

\* C7: inventory is append-only: every step leaves the books already in it in
\* place and unchanged, adds only books whose id it does not hold, and it never
\* holds two entries with one id.
C7_InventoryAppendOnly ==
    [] C7_UniqueIds /\ [][C7_StepAppends]_vars

\* two overlapping searches both completed and merged, the later-started first
C7_Witness ==
    /\ searches[1].status = "done"
    /\ searches[2].status = "done"
    /\ Len(searches[1].newBooks) >= 1
    /\ Len(searches[2].newBooks) >= 1
    /\ Len(inventory) = NumPrebuilt + Len(searches[1].newBooks) + Len(searches[2].newBooks)
    /\ inventory[NumPrebuilt + 1].id = searches[2].newBooks[1].id

\* a step that adds sale records: what it appends and what it pushes
C8_StepCheckout ==
    salesData' # salesData =>
        LET n == Len(cart)
            appended == SubSeq(salesData', Len(salesData) + 1, Len(salesData'))
        IN  /\ IsPrefix(salesData, salesData')
            /\ Len(appended) = totalCartItems
            /\ \A i \in DOMAIN cart : UnitsOf(appended, cart[i].id) = cart[i].quantity
            /\ \A k \in DOMAIN appended : HasItem(cart, appended[k].bookId)
            /\ uuidCount' = uuidCount + n
            /\ Len(notifications') = Min(Len(notifications) + n, SliceEnd + 1)
            /\ \A i \in DOMAIN cart :
                    /\ notifications'[n + 1 - i].message
                            = SaleMessage(cart[i].title, cart[i].quantity)
                    /\ notifications'[n + 1 - i].id > uuidCount
            /\ \A k \in (n + 1)..Len(notifications') :
                    notifications'[k] = notifications[k - n]

\* C8: a checkout appends to salesData, for every cart line, exactly quantity
\* records with the line's book id (totalCartItems records in all) and pushes
\* one sale notification per cart line.
C8_CheckoutRecordsUnits == [][C8_StepCheckout]_vars

\* the cart [(A, 2), (B, 1)] checked out: three records, two notifications
C8_Witness ==
    /\ cart = <<>>
    /\ Len(salesData) = 3
    /\ salesData[1].bookId = salesData[2].bookId
    /\ salesData[3].bookId # salesData[1].bookId
    /\ Len(notifications) = 4
    /\ notifications[1].message[1] = "New Sale"
    /\ notifications[2].message = SaleMessage(PrebuiltTitle(1), 2)
    /\ notifications[3].message[1] = "added to cart"

\* a step that adds sale records empties the cart it read
C9_StepAtomic ==
    salesData' # salesData => (cart # <<>> /\ cart' = <<>>)

\* C9: recording the sales and emptying the cart are one step: every step that
\* adds sale records leaves the cart empty.
C9_CheckoutAtomic == [][C9_StepAtomic]_vars

\* right after a checkout: sales recorded, cart empty, the sale announced
C9_Witness ==
    /\ salesData # <<>>
    /\ cart = <<>>
    /\ notifications # <<>>
    /\ notifications[1].message[1] = "New Sale"
    /\ notifications[1].read = FALSE

\* the capacity of the log
C10_AtMostTwenty == Len(notifications) <= 20

\* a step that draws k uuids for notifications: the log after it
C10_StepPush ==
    uuidCount' > uuidCount =>
        LET k == uuidCount' - uuidCount
            kept == Min(Len(notifications), 20 - k)
        IN  /\ Len(notifications') = k + kept
            /\ \A i \in 1..k :
                    /\ notifications'[i].id = uuidv4(uuidCount' + 1 - i)
                    /\ notifications'[i].read = FALSE
            /\ SubSeq(notifications', k + 1, k + kept) = SubSeq(notifications, 1, kept)

\* C10: the notification log holds at most 20 entries; a step that pushes k
\* notifications puts them at the front, newest first and unread, followed by
\* the entries present before in their order, the oldest dropped only as far
\* as the capacity of 20 requires.
C10_BoundedLog == [] C10_AtMostTwenty /\ [][C10_StepPush]_vars

\* a push onto a full log: the new entry in front, the oldest entry gone
C10_Witness ==
    /\ Len(notifications) = 20
    /\ notifications[1].id = uuidv4(LogUuids + 1)
    /\ notifications[1].read = FALSE
    /\ notifications[2].id = uuidv4(LogUuids)
    /\ notifications[20].id = uuidv4(LogUuids + 1 - SliceEnd)

\* a step that adds a line pushes the one notification of the new book; a
\* step that raises a quantity raises one line by one and pushes nothing; no
\* step that keeps or grows the cart draws more than one uuid
C11_StepAdd ==
    /\ Len(cart') = Len(cart) + 1
          => /\ SubSeq(cart', 1, Len(cart)) = cart
             /\ cart'[Len(cart')].quantity = 1
             /\ ~ HasItem(cart, cart'[Len(cart')].id)
             /\ uuidCount' = uuidCount + 1
             /\ notifications' = addNotification(notifications, uuidv4(uuidCount'),
                                                 AddedMessage(cart'[Len(cart')].title))
    /\ (Len(cart') = Len(cart) /\ cart' # cart)
          => /\ notifications' = notifications
             /\ uuidCount' = uuidCount
    /\ (Len(cart') = Len(cart)
            /\ \E i \in DOMAIN cart : cart'[i].quantity > cart[i].quantity)
          => \E i \in DOMAIN cart :
                /\ cart'[i] = [cart[i] EXCEPT !.quantity = @ + 1]
                /\ \A j \in DOMAIN cart : j # i => cart'[j] = cart[j]
    /\ (Len(cart') >= Len(cart) /\ cart' # <<>>) => uuidCount' <= uuidCount + 1

\* C11: one add pushes exactly one "added to cart" notification when no line
\* has the book's id, and none when a line has it (that line's quantity then
\* goes up by one); an add never pushes more than one.
C11_AddNotifiesOnce == [][C11_StepAdd]_vars

\* a book added twice: one line of two units, announced once
C11_Witness ==
    /\ Len(cart) = 1
    /\ cart[1].quantity = 2
    /\ uuidCount = 1
    /\ Len(notifications) = 1
    /\ notifications[1].message = AddedMessage(cart[1].title)

\* a step keeps a read notification read and otherwise as it was while it stays
\* in the log, and every entry it brings in carries a uuid drawn by that step
C12_StepReadStays ==
    /\ \A i \in DOMAIN notifications : \A j \in DOMAIN notifications' :
            notifications'[j].id = notifications[i].id
                => /\ notifications'[j].message = notifications[i].message
                   /\ notifications[i].read => notifications'[j].read
    /\ \A j \in DOMAIN notifications' :
            (\A i \in DOMAIN notifications : notifications[i].id # notifications'[j].id)
                => /\ notifications'[j].id > uuidCount
                   /\ notifications'[j].id <= uuidCount'

\* every id in the log has been drawn, so an id drawn later is in no earlier log
C12_IdsDrawn ==
    \A i \in DOMAIN notifications :
        notifications[i].id >= 1 /\ notifications[i].id <= uuidCount

\* C12: a read notification is never unread again while it stays in the log,
\* and a notification that left the log (dismissed, cleared, evicted) never
\* comes back: what enters the log always carries a fresh id.
C12_ReadOneWay == [] C12_IdsDrawn /\ [][C12_StepReadStays]_vars

\* a read notification still read after a push onto the full log evicted the oldest
C12_Witness ==
    /\ Len(notifications) = SliceEnd + 1
    /\ notifications[1].id = uuidv4(LogUuids + 1)
    /\ notifications[1].read = FALSE
    /\ notifications[2].read = TRUE
    /\ notifications[SliceEnd + 1].read = TRUE
    /\ notifications[SliceEnd + 1].id = uuidv4(LogUuids + 1 - SliceEnd)

\* C13: dismiss(id) and markRead(id) are idempotent: on every log the handlers
\* reach and every id, twice is the same as once; dismiss of an absent id and
\* markRead of a read notification change nothing.
C13_Idempotent ==
    \A id \in AllNotificationIds :
        LET present == \E i \in DOMAIN notifications : notifications[i].id = id
            unread == \E i \in DOMAIN notifications :
                          notifications[i].id = id /\ ~ notifications[i].read
        IN  /\ DismissUpdate(DismissUpdate(notifications, id), id)
                    = DismissUpdate(notifications, id)
            /\ MarkAsReadUpdate(MarkAsReadUpdate(notifications, id), id)
                    = MarkAsReadUpdate(notifications, id)
            /\ ~ present => DismissUpdate(notifications, id) = notifications
            /\ present => DismissUpdate(notifications, id) # notifications
            /\ ~ unread => MarkAsReadUpdate(notifications, id) = notifications
            /\ unread => MarkAsReadUpdate(notifications, id) # notifications

\* three pushed, the middle one dismissed, the oldest marked read
C13_Witness ==
    /\ uuidCount = 3
    /\ Len(notifications) = 2
    /\ notifications[1].id = uuidv4(3)
    /\ notifications[2].id = uuidv4(1)
    /\ ~ notifications[1].read
    /\ notifications[2].read

\* C14: remove, increase and decrease with an id that has no line leave the
\* cart as it is (same lines, order and quantities), whatever the cart.
C14_AbsentIdNoOp ==
    \A bookId \in BookIdInputs :
        ~ HasItem(cart, bookId)
            => /\ FilterOutItem(cart, bookId) = cart
               /\ IncrementItem(cart, bookId) = cart
               /\ DecreaseQuantityUpdate(cart, bookId) = cart

\* the first catalog book was added and removed again: its id has no line, the
\* other book's line holds two units
C14_Witness ==
    /\ Len(cart) = 1
    /\ cart[1].id = prebuiltBooks[2].id
    /\ cart[1].quantity = 2
    /\ uuidCount = 2
    /\ ~ HasItem(cart, prebuiltBooks[1].id)
    /\ prebuiltBooks[1].id \in BookIdInputs

\* a step that pushes draws at least one uuid; a push is the only use of uuids
C15_StepFrame ==
    /\ (uuidCount' > uuidCount)
        => \/ Len(cart') = Len(cart) + 1
           \/ cart # <<>> /\ cart' = <<>> /\ salesData' # salesData
    /\ (uuidCount' = uuidCount /\ cart' # cart)
        => /\ notifications' = notifications
           /\ salesData' = salesData
           /\ inventory' = inventory
           /\ displayedBooks' = displayedBooks
    /\ (cart' # cart /\ Len(cart') <= Len(cart) /\ cart' # <<>>)
        => uuidCount' = uuidCount

\* C15: remove, increase and decrease change the cart alone (no push; log,
\* sales, inventory and displayed list stay); a push comes only with a new
\* cart line (add of a new book) or with a checkout.
C15_CartOpsFrame == [][C15_StepFrame]_vars

\* a line was raised to two units and lowered again, the other line was
\* removed: two pushes (the two adds) and no more
C15_Witness ==
    /\ Len(cart) = 1
    /\ cart[1].quantity = 1
    /\ cart[1].id = prebuiltBooks[2].id
    /\ uuidCount = 2
    /\ Len(notifications) = 2
    /\ salesData = <<>>

\* the first search, alone and completed: the valid payloads of its stream are
\* on display in arrival order and are what inventory gained
C16_CompletedShowsValid ==
    (Started = {1} /\ searches[1].status = "done")
        => /\ displayedBooks = searches[1].newBooks
           /\ TitlesOf(displayedBooks) = ValidOnly(searches[1].stream)
           /\ inventory = prebuiltBooks \o searches[1].newBooks
           /\ \A i \in DOMAIN inventory : inventory[i].title # Malformed

\* a malformed payload ends nothing and shows nothing; the completion of a
\* lone search whose items are on display merges exactly those items
C16_StepDropAndMerge ==
    \A s \in SearchIds :
        /\ ( /\ searches[s].status = "pending"
             /\ Len(searches'[s].stream) = Len(searches[s].stream) + 1
             /\ searches'[s].stream[Len(searches'[s].stream)] = Malformed )
              => /\ searches'[s].status = "pending"
                 /\ searches'[s].newBooks = searches[s].newBooks
                 /\ displayedBooks' = displayedBooks
                 /\ inventory' = inventory
        /\ ( /\ Pending = {s}
             /\ displayedBooks = searches[s].newBooks
             /\ searches'[s].status = "done" )
              => /\ displayedBooks' = searches[s].newBooks
                 /\ TitlesOf(displayedBooks') = ValidOnly(searches[s].stream)
                 /\ inventory' = inventory \o displayedBooks'

\* C16: a stream with a malformed payload among valid ones, ended by graceful
\* completion: the search is not aborted, the malformed payload is neither
\* displayed nor merged, the valid payloads are displayed in arrival order and
\* are exactly the books merged into inventory.
C16_MalformedDropped ==
    [] C16_CompletedShowsValid /\ [][C16_StepDropAndMerge]_vars

\* three valid payloads, then a malformed one, then completion
C16_Witness ==
    /\ Started = {1}
    /\ searches[1].status = "done"
    /\ searches[1].stream = <<"T1", "T2", "T1", Malformed>>
    /\ Len(displayedBooks) = 3
    /\ TitlesOf(displayedBooks) = <<"T1", "T2", "T1">>
    /\ Len(inventory) = NumPrebuilt + 3

\* C17: a failure stays with its own request: when a search fails after a
\* later search has been started, displayedBooks does not change.
C17_FailureIsolated ==
    [][ \A s \in SearchIds :
            ( /\ \E t \in SearchIds : t > s /\ searches[t].status # "idle"
              /\ searches[s].status = "pending"
              /\ searches'[s].status = "failed" )
                => displayedBooks' = displayedBooks ]_vars

\* inventory holds no item of a failed search and every item of a completed one
C18_FailedNotMerged ==
    \A s \in SearchIds :
        /\ searches[s].status = "failed"
              => \A k \in DOMAIN searches[s].newBooks :
                    \A i \in DOMAIN inventory : inventory[i].id # searches[s].newBooks[k].id
        /\ searches[s].status = "done"
              => \A k \in DOMAIN searches[s].newBooks :
                    \E i \in DOMAIN inventory : inventory[i] = searches[s].newBooks[k]

\* the step in which a search fails leaves inventory as it was
C18_StepFailKeeps ==
    \A s \in SearchIds :
        (searches[s].status = "pending" /\ searches'[s].status = "failed")
            => inventory' = inventory

\* C18: a search whose stream fails leaves inventory unchanged: none of its
\* partial items is merged and every book merged by completed searches stays.
C18_FailureKeepsInventory ==
    [] C18_FailedNotMerged /\ [][C18_StepFailKeeps]_vars

\* the first search completed with one book, the second failed after two
C18_Witness ==
    /\ searches[1].status = "done"
    /\ Len(searches[1].newBooks) = 1
    /\ searches[2].status = "failed"
    /\ Len(searches[2].newBooks) = 2
    /\ inventory = prebuiltBooks \o searches[1].newBooks

\* C19: isLoading is true exactly when at least one search is in flight, also
\* when searches overlap.
C19_LoadingIffPending == isLoading <=> (Pending # {})

\* the panel of notifications is rendered in the store view of an admin
PanelOffered == currentView = "store" /\ isAdmin

C20_AdminInAdminView ==
    /\ isAdmin <=> (currentView = "admin")
    /\ ~ PanelOffered

\* isAdmin changes at a login (to TRUE, entering the admin view) and at a
\* logout (to FALSE, leaving it) and in no other step
C20_StepLoginLogout ==
    /\ (isAdmin' # isAdmin)
          => \/ isAdmin' /\ currentView = "login" /\ currentView' = "admin"
             \/ ~ isAdmin' /\ currentView = "admin" /\ currentView' = "store"
    /\ (currentView' = "admin" /\ currentView # "admin") => isAdmin'
    /\ (currentView = "admin" /\ currentView' # "admin") => ~ isAdmin'

\* C20: isAdmin is true exactly in the admin view: login sets both, logout
\* clears both, nothing else changes isAdmin; the store view is never shown to
\* an admin, so the notification panel is never offered.
C20_AdminIffAdminView ==
    [] C20_AdminInAdminView /\ [][C20_StepLoginLogout]_vars

\* an admin logged in after a checkout: the log holds the sale, the admin view
\* is shown
C20_Witness ==
    /\ isAdmin
    /\ currentView = "admin"
    /\ salesData # <<>>
    /\ Len(notifications) >= 2

====
